---- MODULE Spec2Model ----
(***************************************************************************)
(* A model of smartdarkroom: the Enlarger engine (enlarger.py) driving a   *)
(* light, a filter and Metronomes through focus / print / make, and the    *)
(* MultiStepPrint builder (prints.py) that realizes a base exposure with   *)
(* dodge and burn steps, the test strip constructors (prints.py), and the  *)
(* RepeatedTimer (utils.py) behind every Metronome, with its threads.      *)
(*                                                                         *)
(* Durations are integers in hundredths of a second (566 is 5.66 s); the   *)
(* inputs are chosen so that every division by a power of two is exact,    *)
(* as it is in the floating point arithmetic of the source.                *)
(***************************************************************************)
EXTENDS Integers, Sequences, FiniteSets, TLC

\* ---------------------------------------------------------------- bounds

\* The longest program handed to Enlarger.make.
MaxSteps == 3

\* The most dodge and burn modifiers a MultiStepPrint holds at once.
MaxMods == 3

\* ---------------------------------------------------------------- values

\* Python's None (the default grade of a PrintStep, the initial filter).
None == "None"

\* Contrast grades the operator uses.
Grades == {None, "2.5"}

\* Exposure durations (1/100 s) used by the engine's callers.
Durations == {566, 1000}

\* focus timeouts in seconds; signal.alarm(0) arms nothing.
Timeouts == {0, 1, 300}

\* prints.py PrintStep.__init__: an immutable step.
PrintStep(duration, user_prompt, grade, before_step_duration) ==
    [duration |-> duration, user_prompt |-> user_prompt, grade |-> grade,
     before_step_duration |-> before_step_duration]

\* The steps a caller of make puts in a program: a plain step, a continuation
\* with and without a change of grade, a step with a preview.
EngineSteps ==
    {PrintStep(566, "prompt", "2.5", 0),
     PrintStep(566, "prompt", None, -100),
     PrintStep(566, "prompt", "2.5", -100),
     PrintStep(566, "prompt", None, 300)}

\* The programs handed to make: every list of at most MaxSteps steps.
Programs == UNION {[1..n -> EngineSteps] : n \in 0..MaxSteps}

\* ------------------------------------------------------------ the engine

VARIABLES
    light,          \* the actuator's state, "on" or "off"
    lastCall,       \* the last actuator call made, "on" or "off"
    filter,         \* Enlarger._filter
    alarm,          \* the SIGALRM armed by Timeout: "none" or "armed"
    pc,             \* where the running call is
    call,           \* the running (or last) call: none, focus, print, make
    steps,          \* the_print.get_print_list() of the running make
    idx,            \* 1-based number of the step make is at
    args,           \* the arguments of the running _print
    before_metro,   \* _print's local: unbound, ticking, stopped
    metronome,      \* _print's local: unbound, ticking, stopped
    exc,            \* the exception in flight
    outcome,        \* how the last call ended
    events,         \* what the running _print did, in order
    slept,          \* the argument of the last main-exposure time.sleep
    stepConfirms,   \* step confirmations the running make waited for
    filterConfirms, \* filter confirmations the running call waited for
    prevGrade,      \* the grade of the step executed last (by any call)
    gradeChanges,   \* executed steps of the call whose grade differed from it
    offSinceExposure, \* off() was called since the call's last exposure sleep
    timeout_seconds \* Timeout.seconds of the running focus

engineVars ==
    <<light, lastCall, filter, alarm, pc, call, steps, idx, args,
      before_metro, metronome, exc, outcome, events, slept,
      stepConfirms, filterConfirms, prevGrade, gradeChanges,
      offSinceExposure, timeout_seconds>>

\* Groups of variables, for the frame conditions.
actuator == <<light, lastCall>>
metros == <<before_metro, metronome>>
counts == <<stepConfirms, filterConfirms, prevGrade, gradeChanges>>
frame == <<call, steps, idx, timeout_seconds>>

NoArgs ==
    [seconds |-> 0, filter |-> None, before_print_seconds |-> 0,
     turn_off_enlarger_at_end_of_print |-> TRUE]

Ev(phase, what) == [ph |-> phase, ev |-> what]

\* Enlarger.__init__: the filter is None and the light is switched off.
EngineInit ==
    /\ light = "off"
    /\ lastCall = "off"
    /\ filter = None
    /\ alarm = "none"
    /\ pc = "idle"
    /\ call = "none"
    /\ steps = <<>>
    /\ idx = 0
    /\ args = NoArgs
    /\ before_metro = "unbound"
    /\ metronome = "unbound"
    /\ exc = "none"
    /\ outcome = "none"
    /\ events = <<>>
    /\ slept = 0
    /\ stepConfirms = 0
    /\ filterConfirms = 0
    /\ prevGrade = None
    /\ gradeChanges = 0
    /\ offSinceExposure = TRUE
    /\ timeout_seconds = 0

\* A call begins at the REPL's prompt.
BeginCall(name) ==
    /\ pc = "idle"
    /\ call' = name

\* The call ends: it returns, or raises the exception e to the caller.
EndCall(e) ==
    /\ pc' = "done"
    /\ exc' = "none"
    /\ outcome' = IF e = "none" THEN "returned" ELSE "raised_" \o e

\* The REPL is back at its prompt: the finished call's locals are gone, the
\* engine (light, filter) stays.
Prompt ==
    /\ pc = "done"
    /\ pc' = "idle"
    /\ call' = "none"
    /\ steps' = <<>>
    /\ idx' = 0
    /\ args' = NoArgs
    /\ before_metro' = "unbound"
    /\ metronome' = "unbound"
    /\ exc' = "none"
    /\ outcome' = "none"
    /\ events' = <<>>
    /\ slept' = 0
    /\ stepConfirms' = 0
    /\ filterConfirms' = 0
    /\ gradeChanges' = 0
    /\ offSinceExposure' = TRUE
    /\ timeout_seconds' = 0
    /\ UNCHANGED <<actuator, filter, alarm, prevGrade>>

\* Enlarger._on and Enlarger._off: the actuator calls.  off() is the cleanup
\* primitive and is taken to be reliable; on() may fault, and then the light
\* has or has not come on.
On ==
    /\ light' = "on"
    /\ lastCall' = "on"

Off ==
    /\ light' = "off"
    /\ lastCall' = "off"
    /\ offSinceExposure' = TRUE

OnFaults ==
    /\ light' \in {light, "on"}
    /\ lastCall' = "on"

\* ------------------------------------------------------------------ focus

\* focus(timeout) is called; Timeout.__enter__ arms the alarm.
Focus(timeout) ==
    /\ BeginCall("focus")
    /\ pc' = "focus_on"
    /\ timeout_seconds' = timeout
    /\ alarm' = IF timeout > 0 THEN "armed" ELSE "none"
    /\ UNCHANGED <<actuator, filter, steps, idx, args, metros, exc, outcome,
                   events, slept, counts, offSinceExposure>>

\* self._on() inside the with block.
FocusOn ==
    /\ pc = "focus_on"
    /\ On
    /\ pc' = "focus_input"
    /\ UNCHANGED <<filter, alarm, frame, args, metros, exc, outcome, events,
                   slept, counts, offSinceExposure>>

\* self._on() raises (an actuator fault).
FocusOnFaults ==
    /\ pc = "focus_on"
    /\ OnFaults
    /\ exc' = "Fault"
    /\ pc' = "focus_exit"
    /\ UNCHANGED <<filter, alarm, frame, args, metros, outcome, events,
                   slept, counts, offSinceExposure>>

\* The operator presses ENTER: input() returns.
FocusAck ==
    /\ pc = "focus_input"
    /\ pc' = "focus_exit"
    /\ UNCHANGED <<actuator, filter, alarm, frame, args, metros, exc,
                   outcome, events, slept, counts, offSinceExposure>>

\* input() raises something other than the timeout (EOFError,
\* KeyboardInterrupt).
FocusInputFaults ==
    /\ pc = "focus_input"
    /\ exc' = "Fault"
    /\ pc' = "focus_exit"
    /\ UNCHANGED <<actuator, filter, alarm, frame, args, metros, outcome,
                   events, slept, counts, offSinceExposure>>

\* utils.py Timeout.handle_timeout: the armed alarm goes off while the with
\* block (or its __exit__, before signal.alarm(0)) runs, and raises
\* TimeoutError there.
FocusAlarm ==
    /\ alarm = "armed"
    /\ pc \in {"focus_on", "focus_input", "focus_exit"}
    /\ alarm' = "none"
    /\ exc' = "TimeoutError"
    /\ pc' = "focus_exit"
    /\ UNCHANGED <<actuator, filter, frame, args, metros, outcome, events,
                   slept, counts, offSinceExposure>>

\* A Timeout.__exit__ that leaves the pending alarm armed.
FocusExitKeepsAlarm ==
    /\ pc = "focus_exit"
    /\ exc' = IF exc = "TimeoutError" THEN "none" ELSE exc
    /\ outcome' = IF exc = "TimeoutError" THEN "timed_out" ELSE outcome
    /\ pc' = "focus_finally"
    /\ UNCHANGED <<actuator, filter, alarm, frame, args, metros, events,
                   slept, counts, offSinceExposure>>

\* Timeout.__exit__: signal.alarm(0); then `except TimeoutError` swallows a
\* timeout.
FocusExit ==
    /\ pc = "focus_exit"
    /\ alarm' = "none"
    /\ exc' = IF exc = "TimeoutError" THEN "none" ELSE exc
    /\ outcome' = IF exc = "TimeoutError" THEN "timed_out" ELSE outcome
    /\ pc' = "focus_finally"
    /\ UNCHANGED <<actuator, filter, frame, args, metros, events, slept,
                   counts, offSinceExposure>>

\* How focus ends: it re-raises what was not a timeout, or returns.
FocusOutcome ==
    IF exc # "none" THEN "raised_" \o exc
    ELSE IF outcome = "timed_out" THEN "returned_after_timeout"
    ELSE "returned"

\* A focus that switches the light off on the normal path only.
FocusFinallyNoCleanup ==
    /\ pc = "focus_finally"
    /\ IF exc = "none" /\ outcome # "timed_out"
       THEN Off
       ELSE UNCHANGED <<actuator, offSinceExposure>>
    /\ pc' = "done"
    /\ outcome' = FocusOutcome
    /\ exc' = "none"
    /\ UNCHANGED <<filter, alarm, frame, args, metros, events, slept, counts>>

\* finally: self._off(); then focus returns or re-raises.
FocusFinally ==
    /\ pc = "focus_finally"
    /\ Off
    /\ pc' = "done"
    /\ outcome' = FocusOutcome
    /\ exc' = "none"
    /\ UNCHANGED <<filter, alarm, frame, args, metros, events, slept, counts>>

\* ----------------------------------------------------------------- _print

\* A _set_filter that never asks for a change to no grade at all.
NeedsFilterConfirmUnlessNone(g, current) == g # current /\ g # None

\* _set_filter: `if filter != self._filter`.
NeedsFilterConfirm(g, current) == g # current

\* _print: `float(f"{seconds:.1f}")`, the duration rounded to a tenth of a
\* second as it is shown (the callers' durations hold no exact half).
ActualSeconds(seconds) ==
    LET r == seconds % 10
    IN  IF r < 5 THEN seconds - r ELSE seconds - r + 10

\* _print: where the try block starts, by `before_print_seconds > 0`,
\* `elif before_print_seconds < 0`.
FirstTryPc(before_print_seconds) ==
    IF before_print_seconds > 0 THEN "pre_metro"
    ELSE IF before_print_seconds < 0 THEN "pre_sound"
    ELSE "main_metro"

PreviewPcs == {"pre_metro", "pre_on", "pre_sleep", "pre_stop", "pre_sound"}

PhaseOf(p) == IF p \in PreviewPcs THEN "pre" ELSE "main"

Log(what) == events' = Append(events, Ev(PhaseOf(pc), what))

\* _print(seconds, filter, before_print_seconds, turn_off...) is entered.
EnterPrint(seconds, g, before, turn_off) ==
    /\ args' = [seconds |-> seconds, filter |-> g,
                before_print_seconds |-> before,
                turn_off_enlarger_at_end_of_print |-> turn_off]
    /\ pc' = "set_filter"
    /\ events' = <<>>
    /\ before_metro' = "unbound"
    /\ metronome' = "unbound"

\* _set_filter has returned: the step counts as executed with its grade.
StepExecuted ==
    /\ gradeChanges' = gradeChanges + (IF args.filter # prevGrade THEN 1 ELSE 0)
    /\ prevGrade' = args.filter
    /\ pc' = FirstTryPc(args.before_print_seconds)

\* Enlarger.print(seconds, filter=g).
PrintCall(seconds, g) ==
    /\ BeginCall("print")
    /\ EnterPrint(seconds, g, 0, TRUE)
    /\ UNCHANGED <<actuator, filter, alarm, steps, idx, exc, outcome, slept,
                   counts, offSinceExposure, timeout_seconds>>

\* self._set_filter(filter): nothing to do when the grade is the current one.
SetFilter ==
    /\ pc = "set_filter"
    /\ IF NeedsFilterConfirm(args.filter, filter)
       THEN /\ pc' = "filter_wait"
            /\ UNCHANGED <<prevGrade, gradeChanges>>
       ELSE StepExecuted
    /\ UNCHANGED <<actuator, filter, alarm, frame, args, metros, exc, outcome,
                   events, slept, stepConfirms, filterConfirms,
                   offSinceExposure>>

\* The operator confirms the filter change: self._filter = filter.
FilterConfirm ==
    /\ pc = "filter_wait"
    /\ filter' = args.filter
    /\ filterConfirms' = filterConfirms + 1
    /\ StepExecuted
    /\ UNCHANGED <<actuator, alarm, frame, args, metros, exc, outcome, events,
                   slept, stepConfirms, offSinceExposure>>

\* input() in _set_filter raises; no handler is in the way.
FilterWaitFaults ==
    /\ pc = "filter_wait"
    /\ EndCall("Fault")
    /\ UNCHANGED <<actuator, filter, alarm, frame, args, metros, events,
                   slept, counts, offSinceExposure>>

\* before_metro = Metronome(): it ticks from its construction.
PreMetro ==
    /\ pc = "pre_metro"
    /\ before_metro' = "ticking"
    /\ Log("metro_start")
    /\ pc' = "pre_on"
    /\ UNCHANGED <<actuator, filter, alarm, frame, args, metronome, exc,
                   outcome, slept, counts, offSinceExposure>>

\* self._on() for the preview.
PreOn ==
    /\ pc = "pre_on"
    /\ On
    /\ Log("on")
    /\ pc' = "pre_sleep"
    /\ UNCHANGED <<filter, alarm, frame, args, metros, exc, outcome, slept,
                   counts, offSinceExposure>>

\* time.sleep(before_print_seconds) elapses.
PreSleep ==
    /\ pc = "pre_sleep"
    /\ Log("sleep")
    /\ pc' = "pre_stop"
    /\ UNCHANGED <<actuator, filter, alarm, frame, args, metros, exc, outcome,
                   slept, counts, offSinceExposure>>

\* before_metro.stop().
PreStop ==
    /\ pc = "pre_stop"
    /\ before_metro' = "stopped"
    /\ Log("metro_stop")
    /\ pc' = "pre_sound"
    /\ UNCHANGED <<actuator, filter, alarm, frame, args, metronome, exc,
                   outcome, slept, counts, offSinceExposure>>

\* _play_after_preview_sound(), after a preview or for a continuation step.
PreSound ==
    /\ pc = "pre_sound"
    /\ Log("sound")
    /\ pc' = "main_metro"
    /\ UNCHANGED <<actuator, filter, alarm, frame, args, metros, exc, outcome,
                   slept, counts, offSinceExposure>>

\* metronome = Metronome().
MainMetro ==
    /\ pc = "main_metro"
    /\ metronome' = "ticking"
    /\ Log("metro_start")
    /\ pc' = "main_on"
    /\ UNCHANGED <<actuator, filter, alarm, frame, args, before_metro, exc,
                   outcome, slept, counts, offSinceExposure>>

\* self._on() for the exposure.
MainOn ==
    /\ pc = "main_on"
    /\ On
    /\ Log("on")
    /\ pc' = "main_sleep"
    /\ UNCHANGED <<filter, alarm, frame, args, metros, exc, outcome, slept,
                   counts, offSinceExposure>>

\* time.sleep(actual_seconds) elapses: the exposure is over.
MainSleep ==
    /\ pc = "main_sleep"
    /\ slept' = ActualSeconds(args.seconds)
    /\ offSinceExposure' = FALSE
    /\ Log("sleep")
    /\ pc' = "finally_off"
    /\ UNCHANGED <<actuator, filter, alarm, frame, args, metros, exc, outcome,
                   counts>>

\* Something in the try block other than self._on() raises: a Metronome
\* cannot be built, a sound cannot be played, a sleep is interrupted.
TryFaults ==
    /\ pc \in {"pre_metro", "pre_sleep", "pre_sound", "main_metro",
               "main_sleep"}
    /\ exc' = "Fault"
    /\ IF pc \in {"pre_sleep", "main_sleep"}
       THEN Log("sleep")
       ELSE UNCHANGED events
    /\ offSinceExposure' = IF pc = "main_sleep" THEN FALSE
                           ELSE offSinceExposure
    /\ pc' = "finally_off"
    /\ UNCHANGED <<actuator, filter, alarm, frame, args, metros, outcome,
                   slept, counts>>

\* self._on() raises in the try block.
TryOnFaults ==
    /\ pc \in {"pre_on", "main_on"}
    /\ OnFaults
    /\ exc' = "Fault"
    /\ Log("on")
    /\ pc' = "finally_off"
    /\ UNCHANGED <<filter, alarm, frame, args, metros, outcome, slept, counts,
                   offSinceExposure>>

\* A finally block that stops the Metronome first and switches the light off
\* after it.
FinallyStopThenOff ==
    /\ pc = "finally_off"
    /\ IF metronome = "unbound"
       THEN /\ exc' = "UnboundLocalError"
            /\ UNCHANGED <<metronome, events, actuator, offSinceExposure>>
       ELSE /\ metronome' = "stopped"
            /\ UNCHANGED exc
            /\ IF args.turn_off_enlarger_at_end_of_print
               THEN /\ Off
                    /\ events' = events \o <<Ev("main", "metro_stop"),
                                             Ev("main", "off")>>
               ELSE /\ events' = Append(events, Ev("main", "metro_stop"))
                    /\ UNCHANGED <<actuator, offSinceExposure>>
    /\ pc' = "print_return"
    /\ UNCHANGED <<filter, alarm, frame, args, before_metro, outcome, slept,
                   counts>>

\* finally: `if turn_off_enlarger_at_end_of_print: self._off()`.
FinallyOff ==
    /\ pc = "finally_off"
    /\ IF args.turn_off_enlarger_at_end_of_print
       THEN /\ Off
            /\ events' = Append(events, Ev("main", "off"))
       ELSE UNCHANGED <<actuator, offSinceExposure, events>>
    /\ pc' = "finally_stop"
    /\ UNCHANGED <<filter, alarm, frame, args, metros, exc, outcome, slept,
                   counts>>

\* finally: time.sleep(0.01); metronome.stop().  A `metronome` that was never
\* assigned raises UnboundLocalError, which replaces the exception in flight.
FinallyStop ==
    /\ pc = "finally_stop"
    /\ IF metronome = "unbound"
       THEN /\ exc' = "UnboundLocalError"
            /\ UNCHANGED <<metronome, events>>
       ELSE /\ metronome' = "stopped"
            /\ events' = Append(events, Ev("main", "metro_stop"))
            /\ UNCHANGED exc
    /\ pc' = "print_return"
    /\ UNCHANGED <<actuator, filter, alarm, frame, args, before_metro,
                   outcome, slept, counts, offSinceExposure>>

\* ------------------------------------------------------------------- make

\* A make that prompts only before a step with a preview.
NeedsStepConfirmForPreview(step) == step.before_step_duration > 0

\* make: `if step.before_step_duration >= 0: input(...)`.
NeedsStepConfirm(step) == step.before_step_duration >= 0

\* A lookahead that keeps the light on before any step that has no preview.
TurnOffOnlyBeforePreview(program, i) ==
    IF i < Len(program)
    THEN program[i + 1].before_step_duration > 0
    ELSE TRUE

\* make: the lookahead, `turn_off_enlarger_at_end_of_step`: True unless a next
\* step exists, and then `next_step.before_step_duration >= 0`.
TurnOffEnlargerAtEndOfStep(program, i) ==
    IF i < Len(program)
    THEN program[i + 1].before_step_duration >= 0
    ELSE TRUE

\* make: self._print(step.duration, filter=step.grade, ...) for step idx.
PrintStepOfMake ==
    EnterPrint(steps[idx].duration, steps[idx].grade,
               steps[idx].before_step_duration,
               TurnOffEnlargerAtEndOfStep(steps, idx))

\* Enlarger.make(the_print) is called.
Make(program) ==
    /\ BeginCall("make")
    /\ steps' = program
    /\ pc' = "make_off"
    /\ UNCHANGED <<actuator, filter, alarm, idx, args, metros, exc, outcome,
                   events, slept, counts, offSinceExposure, timeout_seconds>>

\* A make that does not switch the light off before its first step.
MakeOffForgotten ==
    /\ pc = "make_off"
    /\ IF Len(steps) = 0
       THEN /\ EndCall("none")
            /\ UNCHANGED idx
       ELSE /\ idx' = 1
            /\ pc' = "step_begin"
            /\ UNCHANGED <<exc, outcome>>
    /\ UNCHANGED <<actuator, offSinceExposure, filter, alarm, call, steps,
                   args, metros, events, slept, counts, timeout_seconds>>

\* self._off(), the preview of the steps; an empty program then only logs.
MakeOff ==
    /\ pc = "make_off"
    /\ Off
    /\ IF Len(steps) = 0
       THEN /\ EndCall("none")
            /\ UNCHANGED idx
       ELSE /\ idx' = 1
            /\ pc' = "step_begin"
            /\ UNCHANGED <<exc, outcome>>
    /\ UNCHANGED <<filter, alarm, call, steps, args, metros, events, slept,
                   counts, timeout_seconds>>

\* The loop body starts for step idx: it prompts, or goes on to _print.
StepBegin ==
    /\ pc = "step_begin"
    /\ IF NeedsStepConfirm(steps[idx])
       THEN /\ pc' = "step_wait"
            /\ UNCHANGED <<args, events, metros>>
       ELSE PrintStepOfMake
    /\ UNCHANGED <<actuator, filter, alarm, frame, exc, outcome, slept,
                   counts, offSinceExposure>>

\* The operator confirms the step.
StepConfirm ==
    /\ pc = "step_wait"
    /\ stepConfirms' = stepConfirms + 1
    /\ PrintStepOfMake
    /\ UNCHANGED <<actuator, filter, alarm, frame, exc, outcome, slept,
                   filterConfirms, prevGrade, gradeChanges, offSinceExposure>>

\* input() in make raises; no handler is in the way.
StepWaitFaults ==
    /\ pc = "step_wait"
    /\ EndCall("Fault")
    /\ UNCHANGED <<actuator, filter, alarm, frame, args, metros, events,
                   slept, counts, offSinceExposure>>

\* _print is left: an exception goes up through make to the caller, print
\* returns, make goes on to the next step or logs and returns.
PrintReturn ==
    /\ pc = "print_return"
    /\ IF exc # "none"
       THEN EndCall(exc) /\ UNCHANGED idx
       ELSE IF call = "make" /\ idx < Len(steps)
       THEN /\ idx' = idx + 1
            /\ pc' = "step_begin"
            /\ UNCHANGED <<exc, outcome>>
       ELSE EndCall("none") /\ UNCHANGED idx
    /\ UNCHANGED <<actuator, filter, alarm, call, steps, args, metros,
                   events, slept, counts, offSinceExposure, timeout_seconds>>

\* --------------------------------------------------------- MultiStepPrint

VARIABLES
    base_duration,              \* MultiStepPrint._base_duration
    base_grade,                 \* _base_grade
    base_user_prompt,           \* _base_user_prompt
    base_before_step_duration,  \* _base_before_step_duration
    dodge_steps_in_stops,       \* the dodge modifiers (duration holds stops)
    burn_steps_in_stops,        \* the burn modifiers (duration holds stops)
    total_dodge_stops,          \* _total_dodge_stops
    total_dodge_duration,       \* _total_dodge_duration
    print_list,                 \* BasicPrint._print_list, the realized steps
    msp_op,                     \* the last operation called and its argument
    msp_result                  \* how it ended

mspVars ==
    <<base_duration, base_grade, base_user_prompt, base_before_step_duration,
      dodge_steps_in_stops, burn_steps_in_stops, total_dodge_stops,
      total_dodge_duration, print_list, msp_op, msp_result>>

\* Base exposures (1/100 s), all multiples of 2^2.
Bases == {400, 1000}

\* Stop counts callers pass to dodge and to burn.
DodgeStops == {-1, 1, 2}
BurnStops == {-1, 1}

BurnGrades == {None, "5"}
BaseGrades == {"2.5", "5"}
BasePrompts == {"Place paper for print.", "Leave paper in place for print."}

\* step_number arguments of remove_step.
StepNumbers == -2..(MaxMods + 2)

RECURSIVE Pow2(_)
Pow2(n) == IF n <= 0 THEN 1 ELSE 2 * Pow2(n - 1)

\* b * 2**stops.
TimesPow2(b, stops) ==
    IF stops >= 0 THEN b * Pow2(stops) ELSE b \div Pow2(-stops)

\* dodge, _calc_dodge_steps: base - base / (2**stops).
DodgeDuration(b, stops) == b - TimesPow2(b, -stops)

\* _calc_burn_steps: base * 2**stops - base.
BurnDuration(b, stops) == TimesPow2(b, stops) - b

RECURSIVE SumDodgeDurations(_, _)
SumDodgeDurations(b, dodges) ==
    IF dodges = <<>> THEN 0
    ELSE DodgeDuration(b, Head(dodges).duration)
         + SumDodgeDurations(b, Tail(dodges))

RECURSIVE SumStops(_)
SumStops(dodges) ==
    IF dodges = <<>> THEN 0
    ELSE Head(dodges).duration + SumStops(Tail(dodges))

\* _calc_dodge_steps: one step per dodge modifier, at the base grade.
CalcDodgeSteps(b, g, dodges) ==
    [i \in 1..Len(dodges) |->
        PrintStep(DodgeDuration(b, dodges[i].duration),
                  dodges[i].user_prompt, g, dodges[i].before_step_duration)]

\* A _calc_burn_steps that prints every burn at the base grade.
CalcBurnStepsAtBaseGrade(b, g, burns) ==
    [i \in 1..Len(burns) |->
        PrintStep(BurnDuration(b, burns[i].duration), burns[i].user_prompt,
                  g, burns[i].before_step_duration)]

\* _calc_burn_steps: one step per burn modifier, at its grade or the base's.
CalcBurnSteps(b, g, burns) ==
    [i \in 1..Len(burns) |->
        PrintStep(BurnDuration(b, burns[i].duration), burns[i].user_prompt,
                  IF burns[i].grade = None THEN g ELSE burns[i].grade,
                  burns[i].before_step_duration)]

\* A program laid out in the order of computation: dodges, base, burns.
BuildPrintListDodgesFirst(b, g, prompt, before, dodges, burns) ==
    CalcDodgeSteps(b, g, dodges)
        \o <<PrintStep(b - SumDodgeDurations(b, dodges), prompt, g, before)>>
        \o CalcBurnSteps(b, g, burns)

\* A program whose base step keeps the whole base duration.
BuildPrintListFullBase(b, g, prompt, before, dodges, burns) ==
    <<PrintStep(b, prompt, g, before)>>
        \o CalcDodgeSteps(b, g, dodges) \o CalcBurnSteps(b, g, burns)

\* _build_print_list: the dodge steps (and their totals), the base step with
\* the dodge total taken off, the burn steps; base, dodges, burns in order.
BuildPrintList(b, g, prompt, before, dodges, burns) ==
    <<PrintStep(b - SumDodgeDurations(b, dodges), prompt, g, before)>>
        \o CalcDodgeSteps(b, g, dodges) \o CalcBurnSteps(b, g, burns)

\* self._build_print_list() on the primed fields.
Rebuild ==
    /\ total_dodge_stops' = SumStops(dodge_steps_in_stops')
    /\ total_dodge_duration' =
           SumDodgeDurations(base_duration', dodge_steps_in_stops')
    /\ print_list' =
           BuildPrintList(base_duration', base_grade', base_user_prompt',
                          base_before_step_duration', dodge_steps_in_stops',
                          burn_steps_in_stops')

Op(name, n, str) == [op |-> name, n |-> n, s |-> str]

\* MultiStepPrint.__init__(base_duration, grade=2.5, user_prompt=..., 0).
MSPInit(b) ==
    /\ base_duration = b
    /\ base_grade = "2.5"
    /\ base_user_prompt = "Place paper for print."
    /\ base_before_step_duration = 0
    /\ dodge_steps_in_stops = <<>>
    /\ burn_steps_in_stops = <<>>
    /\ total_dodge_stops = 0
    /\ total_dodge_duration = 0
    /\ print_list = BuildPrintList(b, "2.5", "Place paper for print.", 0,
                                   <<>>, <<>>)
    /\ msp_op = Op("init", b, "")
    /\ msp_result = "ok"

\* The str() of a stop count in a prompt.
StopsStr(stops) ==
    CASE stops = -2 -> "-2" [] stops = -1 -> "-1" [] stops = 0 -> "0"
      [] stops = 1 -> "1" [] stops = 2 -> "2" [] OTHER -> "n"

\* dodge, burn: f"{kind} {subject if subject else 'unspecified subject'} for
\* {stops} stops".
ModifierPrompt(kind, subject, stops) ==
    kind \o " " \o (IF subject # "" THEN subject ELSE "unspecified subject")
         \o " for " \o StopsStr(stops) \o " stops"

\* A check that also rejects a total equal to the base duration.
DodgeReachesBase(proposed, total, b) == proposed + total >= b

\* dodge: `(proposed_dodge_duration + self._total_dodge_duration) >
\* self._base_duration`.
DodgeExceeds(proposed, total, b) == proposed + total > b

\* The modifier lists have room (the model's bound on them).
HasRoom == Len(dodge_steps_in_stops) + Len(burn_steps_in_stops) < MaxMods

\* MultiStepPrint.dodge(stops, before_step_duration=before, subject=subject).
Dodge(stops, before, subject) ==
    /\ HasRoom
    /\ msp_op' = Op("dodge", stops, subject)
    /\ IF DodgeExceeds(DodgeDuration(base_duration, stops),
                       total_dodge_duration, base_duration)
       THEN /\ msp_result' = "raised"
            /\ UNCHANGED <<base_duration, base_grade, base_user_prompt,
                           base_before_step_duration, dodge_steps_in_stops,
                           burn_steps_in_stops, total_dodge_stops,
                           total_dodge_duration, print_list>>
       ELSE /\ dodge_steps_in_stops' =
                   Append(dodge_steps_in_stops,
                          PrintStep(stops,
                                    ModifierPrompt("Dodge", subject, stops),
                                    None, before))
            /\ UNCHANGED <<base_duration, base_grade, base_user_prompt,
                           base_before_step_duration, burn_steps_in_stops>>
            /\ Rebuild
            /\ msp_result' = "ok"

\* MultiStepPrint.burn(stops, grade=g, before_step_duration=before,
\* subject=subject).
Burn(stops, g, before, subject) ==
    /\ HasRoom
    /\ msp_op' = Op("burn", stops, g)
    /\ burn_steps_in_stops' =
           Append(burn_steps_in_stops,
                  PrintStep(stops, ModifierPrompt("Burn", subject, stops), g,
                            before))
    /\ UNCHANGED <<base_duration, base_grade, base_user_prompt,
                   base_before_step_duration, dodge_steps_in_stops>>
    /\ Rebuild
    /\ msp_result' = "ok"

\* A removal that always takes the last element.
RemoveLast(seq, k) == SubSeq(seq, 1, Len(seq) - 1)

\* A sequence without its element at 1-based position k.
RemoveAt(seq, k) ==
    [i \in 1..(Len(seq) - 1) |-> IF i < k THEN seq[i] ELSE seq[i + 1]]

\* list.pop(i) of a list of length n: the 0-based position it takes, or -1
\* where it raises IndexError.
PopIndex(i, n) ==
    LET j == IF i < 0 THEN i + n ELSE i
    IN  IF j >= 0 /\ j < n THEN j ELSE -1

\* MultiStepPrint.remove_step(step_number).  all_steps is a new list of the
\* same PrintStep objects, which compare by identity: the popped object is in
\* the dodge list exactly when its position lies in the dodge part.
RemoveStep(step_number) ==
    LET nd == Len(dodge_steps_in_stops)
        nb == Len(burn_steps_in_stops)
        j == PopIndex(step_number - 2, nd + nb)
    IN  /\ msp_op' = Op("remove_step", step_number, "")
        /\ IF step_number = 1 \/ step_number > Len(print_list)
           THEN /\ msp_result' = "no_action"
                /\ UNCHANGED <<base_duration, base_grade, base_user_prompt,
                               base_before_step_duration,
                               dodge_steps_in_stops, burn_steps_in_stops,
                               total_dodge_stops, total_dodge_duration,
                               print_list>>
           ELSE IF j = -1
           THEN /\ msp_result' = "raised_IndexError"
                /\ UNCHANGED <<base_duration, base_grade, base_user_prompt,
                               base_before_step_duration,
                               dodge_steps_in_stops, burn_steps_in_stops,
                               total_dodge_stops, total_dodge_duration,
                               print_list>>
           ELSE /\ IF j < nd
                   THEN /\ dodge_steps_in_stops' =
                               RemoveAt(dodge_steps_in_stops, j + 1)
                        /\ UNCHANGED burn_steps_in_stops
                   ELSE /\ burn_steps_in_stops' =
                               RemoveAt(burn_steps_in_stops, j - nd + 1)
                        /\ UNCHANGED dodge_steps_in_stops
                /\ UNCHANGED <<base_duration, base_grade, base_user_prompt,
                               base_before_step_duration>>
                /\ Rebuild
                /\ msp_result' = "ok"

\* A base_duration setter that does not rebuild the program.
SetBaseDurationStale(new_duration) ==
    /\ msp_op' = Op("base_duration", new_duration, "")
    /\ base_duration' = new_duration
    /\ UNCHANGED <<base_grade, base_user_prompt, base_before_step_duration,
                   dodge_steps_in_stops, burn_steps_in_stops,
                   total_dodge_stops, total_dodge_duration, print_list>>
    /\ msp_result' = "ok"

\* The base_duration setter.
SetBaseDuration(new_duration) ==
    /\ msp_op' = Op("base_duration", new_duration, "")
    /\ base_duration' = new_duration
    /\ UNCHANGED <<base_grade, base_user_prompt, base_before_step_duration,
                   dodge_steps_in_stops, burn_steps_in_stops>>
    /\ Rebuild
    /\ msp_result' = "ok"

\* The grade setter.
SetGrade(new_grade) ==
    /\ msp_op' = Op("grade", 0, new_grade)
    /\ base_grade' = new_grade
    /\ UNCHANGED <<base_duration, base_user_prompt,
                   base_before_step_duration, dodge_steps_in_stops,
                   burn_steps_in_stops>>
    /\ Rebuild
    /\ msp_result' = "ok"

\* The base_user_prompt setter.
SetBaseUserPrompt(new_base_user_prompt) ==
    /\ msp_op' = Op("base_user_prompt", 0, new_base_user_prompt)
    /\ base_user_prompt' = new_base_user_prompt
    /\ UNCHANGED <<base_duration, base_grade, base_before_step_duration,
                   dodge_steps_in_stops, burn_steps_in_stops>>
    /\ Rebuild
    /\ msp_result' = "ok"

\* ------------------------------------------------------------ test strips

VARIABLES
    strip_call,        \* the constructor called and its arguments
    strip_print_list,  \* BasicPrint._print_list of the strip constructed
    strip_result       \* how the constructor ended

stripVars == <<strip_call, strip_print_list, strip_result>>

\* The largest `steps` argument of a test strip.
MaxStripSteps == 4

\* Arguments of the test strip constructors.  A stop count is held in half
\* stops: 1 is the default 1/2 stop, 2 is one stop, -2 is minus one stop.
StripBases == {400, 800}
StripSteps == -1..MaxStripSteps
StripHalfStops == {-2, 0, 1, 2}

\* b * 2**(1/2), to the hundredth of a second.
Sqrt2Times(b) == (b * 14142 + 5000) \div 10000

\* b * 2**(k/2) for a whole number k of half stops.
TimesPow2Half(b, k) ==
    IF k % 2 = 0 THEN TimesPow2(b, k \div 2)
    ELSE Sqrt2Times(TimesPow2(b, (k - 1) \div 2))

\* int(steps/2): the quotient truncated towards zero.
IntHalf(n_steps) ==
    IF n_steps >= 0 THEN n_steps \div 2 ELSE -((-n_steps) \div 2)

\* A constructor that ignores middle_out.
StripBaseNotRecentred(base, n_steps, stops, middle_out) == base

\* `if middle_out: base = base / 2**(int(steps/2)*stops)`.
StripBase(base, n_steps, stops, middle_out) ==
    IF middle_out THEN TimesPow2Half(base, -(IntHalf(n_steps) * stops))
    ELSE base

\* range(0, steps) as the sequence 0, 1, ..., steps-1 (empty for steps < 1).
Range0(n_steps) == [i \in 1..n_steps |-> i - 1]

\* FStopTestStrip.__init__: the cumulative exposures base * 2**(i*stops), a
\* leading 0, and the differences of neighbours as the step durations.
FStopTestStrip(base, n_steps, stops, middle_out, grade) ==
    LET b == StripBase(base, n_steps, stops, middle_out)
        total_steps ==
            <<0>> \o [n \in 1..Len(Range0(n_steps)) |->
                         TimesPow2Half(b, Range0(n_steps)[n] * stops)]
        incremental_steps ==
            [n \in 1..(Len(total_steps) - 1) |->
                total_steps[n + 1] - total_steps[n]]
    IN  [n \in 1..Len(incremental_steps) |->
            PrintStep(incremental_steps[n],
                      IF incremental_steps[n] = b
                      THEN "Place paper for print."
                      ELSE "Move card to block just exposed test strip.",
                      grade, 0)]

\* LocalizedFStopTestStrip.__init__: every step is a whole exposure.
LocalizedFStopTestStrip(base, n_steps, stops, middle_out, grade) ==
    LET b == StripBase(base, n_steps, stops, middle_out)
    IN  [n \in 1..Len(Range0(n_steps)) |->
            PrintStep(TimesPow2Half(b, Range0(n_steps)[n] * stops),
                      IF Range0(n_steps)[n] = 0
                      THEN "Place paper for print."
                      ELSE "Move paper to expose next strip.",
                      grade, 0)]

StripCall(kind, base, n_steps, stops, middle_out, grade) ==
    [kind |-> kind, base |-> base, steps |-> n_steps, stops |-> stops,
     middle_out |-> middle_out, grade |-> grade]

\* No test strip has been constructed.
StripInit ==
    /\ strip_call = StripCall("none", 0, 0, 0, FALSE, None)
    /\ strip_print_list = <<>>
    /\ strip_result = "none"

\* FStopTestStrip(base, steps, stops, middle_out, grade): no argument is
\* checked and the constructor returns.
NewFStopTestStrip(base, n_steps, stops, middle_out, grade) ==
    /\ strip_call' = StripCall("FStopTestStrip", base, n_steps, stops,
                               middle_out, grade)
    /\ strip_print_list' =
           FStopTestStrip(base, n_steps, stops, middle_out, grade)
    /\ strip_result' = "ok"

\* LocalizedFStopTestStrip(base, steps, stops, middle_out, grade).
NewLocalizedFStopTestStrip(base, n_steps, stops, middle_out, grade) ==
    /\ strip_call' = StripCall("LocalizedFStopTestStrip", base, n_steps, stops,
                               middle_out, grade)
    /\ strip_print_list' =
           LocalizedFStopTestStrip(base, n_steps, stops, middle_out, grade)
    /\ strip_result' = "ok"

\* Bases of a BarnbaumTestPrint: one whose half is below a second.
BarnbaumBases == {150, 750}

\* `if middle_out: base = base / 2.`
BarnbaumBase(base, middle_out) == IF middle_out THEN base \div 2 ELSE base

\* BarnbaumTestPrint.__init__: the steps base * i for i in range(1, 4).
BarnbaumTestPrint(base, middle_out, grade) ==
    [i \in 1..3 |->
        PrintStep(BarnbaumBase(base, middle_out) * i,
                  IF i = 1 THEN "Place paper for print."
                  ELSE "Move paper to cover portion of print.",
                  grade, 0)]

\* BarnbaumTestPrint(base, middle_out, grade): raises when the base, halved
\* for middle_out, is below one second.
NewBarnbaumTestPrint(base, middle_out, grade) ==
    /\ strip_call' = StripCall("BarnbaumTestPrint", base, 3, 0, middle_out,
                               grade)
    /\ IF BarnbaumBase(base, middle_out) < 100
       THEN /\ strip_print_list' = <<>>
            /\ strip_result' = "Exception"
       ELSE /\ strip_print_list' = BarnbaumTestPrint(base, middle_out, grade)
            /\ strip_result' = "ok"

\* -------------------------------------------------- prints made of prints

VARIABLES
    other_print_list,  \* _print_list of a OneExposurePrint, an operand of +
    sum_print_list,    \* _print_list of the BasicPrint the last + returned
    sum_operands,      \* the operands' lists when that + was evaluated
    from_call,         \* the last from_step called and its step_number
    from_print_list,   \* _print_list of the print it returned
    from_result        \* how it ended

sumVars == <<other_print_list, sum_print_list, sum_operands>>
fromVars == <<from_call, from_print_list, from_result>>
derivedVars == <<sumVars, fromVars>>

\* OneExposurePrint.__init__: the one step of the print.
OneExposurePrint(print_duration, grade, before_step_duration) ==
    <<PrintStep(print_duration, "Place paper for print.", grade,
                before_step_duration)>>

FromCall(cls, step_number) == [cls |-> cls, step_number |-> step_number]

\* A OneExposurePrint exists; nothing was added, no from_step was called.
DerivedInit ==
    /\ other_print_list = OneExposurePrint(566, "5", 0)
    /\ sum_print_list = <<>>
    /\ sum_operands = <<>>
    /\ from_call = FromCall("none", 0)
    /\ from_print_list = <<>>
    /\ from_result = "none"

\* A + that puts the right operand's steps first.
ConcatReversed(left, right) == right \o left

\* BasicPrint.__add__: list + list is a new list, the left operand's steps
\* and then the right operand's.
Concat(left, right) == left \o right

\* msp + other or other + msp, for the MultiStepPrint and the
\* OneExposurePrint.  The operands keep their lists.
Add(msp_first) ==
    LET left == IF msp_first THEN print_list ELSE other_print_list
        right == IF msp_first THEN other_print_list ELSE print_list
    IN  /\ sum_print_list' = Concat(left, right)
        /\ sum_operands' = <<left, right>>
        /\ UNCHANGED <<other_print_list, fromVars, mspVars>>

\* list[key] of Python: the 1-based position that key names in a list of
\* length n, or 0 where Python raises IndexError.
ListIndex(n, key) ==
    IF 0 <= key /\ key < n THEN key + 1
    ELSE IF -n <= key /\ key < 0 THEN n + key + 1
    ELSE 0

\* What an indexing gives: a step, or the exception raised.
Got(step) == [raised |-> "none", step |-> step]
RaisedIndexError ==
    [raised |-> "IndexError", step |-> PrintStep(0, "", None, 0)]

\* BasicPrint.__getitem__: self.get_print_list()[key].
BasicGetItem(seq, key) ==
    IF ListIndex(Len(seq), key) = 0 THEN RaisedIndexError
    ELSE Got(seq[ListIndex(Len(seq), key)])

\* sum([print_list[i].duration for i in range(n)]) for n <= len(print_list).
RECURSIVE PrefixDuration(_, _)
PrefixDuration(seq, n) ==
    IF n <= 0 THEN 0 ELSE PrefixDuration(seq, n - 1) + seq[n].duration

\* An FStopTestStrip.__getitem__ that returns the step itself.
FStopGetItemIncrement(seq, key) ==
    IF key >= Len(seq) \/ ListIndex(Len(seq), key) = 0 THEN RaisedIndexError
    ELSE Got(PrintStep(seq[ListIndex(Len(seq), key)].duration, "",
                       seq[ListIndex(Len(seq), key)].grade, 0))

\* FStopTestStrip.__getitem__: the durations of the steps 0..key summed
\* (range(key+1) is empty for key < 0, and reaches past the list for
\* key >= len), then print_list[key] for the grade.
FStopGetItem(seq, key) ==
    IF key >= Len(seq) \/ ListIndex(Len(seq), key) = 0 THEN RaisedIndexError
    ELSE Got(PrintStep(PrefixDuration(seq, key + 1), "",
                       seq[ListIndex(Len(seq), key)].grade, 0))

\* source_print[step_number-1] for the test strip as the source print.
OriginalStep(step_number) ==
    IF strip_call.kind = "FStopTestStrip"
    THEN FStopGetItem(strip_print_list, step_number - 1)
    ELSE BasicGetItem(strip_print_list, step_number - 1)

\* A from_step ends: the indexing raised, or the constructor raised, or the
\* new print is returned.
FromStepEnds(cls, step_number, raised, new_print_list) ==
    /\ strip_result = "ok"
    /\ from_call' = FromCall(cls, step_number)
    /\ IF OriginalStep(step_number).raised # "none"
       THEN /\ from_result' = OriginalStep(step_number).raised
            /\ from_print_list' = <<>>
       ELSE IF raised # "none"
       THEN /\ from_result' = raised
            /\ from_print_list' = <<>>
       ELSE /\ from_result' = "ok"
            /\ from_print_list' = new_print_list
    /\ UNCHANGED <<sumVars, stripVars, mspVars>>

\* OneExposurePrint.from_step(source_print, step_number).
OneExposureFromStep(step_number) ==
    LET original_step == OriginalStep(step_number).step
    IN  FromStepEnds("OneExposurePrint", step_number, "none",
                     OneExposurePrint(original_step.duration,
                                      original_step.grade, 0))

\* MultiStepPrint.from_step(source_print, step_number): a new MultiStepPrint
\* with no dodge and no burn.
MultiStepFromStep(step_number) ==
    LET original_step == OriginalStep(step_number).step
    IN  FromStepEnds("MultiStepPrint", step_number, "none",
                     BuildPrintList(original_step.duration,
                                    original_step.grade,
                                    "Place paper for print.", 0, <<>>, <<>>))

\* `if grade is None: grade = original_step.grade`.
GradeOr(grade, original_step) ==
    IF grade = None THEN original_step.grade ELSE grade

\* FStopTestStrip.from_step(source_print, step_number, steps, stops,
\* middle_out, grade).
FStopFromStep(step_number, n_steps, stops, middle_out, grade) ==
    LET original_step == OriginalStep(step_number).step
    IN  FromStepEnds("FStopTestStrip", step_number, "none",
                     FStopTestStrip(original_step.duration, n_steps, stops,
                                    middle_out,
                                    GradeOr(grade, original_step)))

\* LocalizedFStopTestStrip.from_step(source_print, step_number, steps, stops,
\* middle_out, grade).
LocalizedFromStep(step_number, n_steps, stops, middle_out, grade) ==
    LET original_step == OriginalStep(step_number).step
    IN  FromStepEnds("LocalizedFStopTestStrip", step_number, "none",
                     LocalizedFStopTestStrip(original_step.duration, n_steps,
                                             stops, middle_out,
                                             GradeOr(grade, original_step)))

\* BarnbaumTestPrint.from_step(source_print, step_number, middle_out, grade).
BarnbaumFromStep(step_number, middle_out, grade) ==
    LET original_step == OriginalStep(step_number).step
    IN  FromStepEnds("BarnbaumTestPrint", step_number,
                     IF BarnbaumBase(original_step.duration, middle_out) < 100
                     THEN "Exception" ELSE "none",
                     BarnbaumTestPrint(original_step.duration, middle_out,
                                       GradeOr(grade, original_step)))

\* ---------------------------------------------------------- RepeatedTimer

VARIABLES
    is_running,   \* RepeatedTimer.is_running
    timer,        \* RepeatedTimer._timer: the index in timers of the
                  \* threading.Timer it holds, 0 for None
    timers,       \* every threading.Timer created, with the state of its
                  \* thread: "waiting", "cancelled", a position in _run, or
                  \* "finished"
    main_pc,      \* the position of the thread that constructs and stops
    ticks,        \* calls of the tick function so far
    late_ticks,   \* those of them begun after a stop() had returned
    now,          \* time.time(), in the unit of Interval
    origin,       \* next_call as __init__ set it
    next_call,    \* RepeatedTimer.next_call
    targets,      \* for every Timer created, the time it was aimed at
    stop_calls    \* calls of stop() that have returned

timerVars ==
    <<is_running, timer, timers, main_pc, ticks, late_ticks, now, origin,
      next_call, targets, stop_calls>>

clock == <<now, origin>>
schedule == <<next_call, targets>>

\* The number of threading.Timer objects one RepeatedTimer creates.
MaxTimers == 4

\* The latest time on the clock.
MaxNow == 7

\* The calls of stop() made on one RepeatedTimer.
MaxStopCalls == 2

\* RepeatedTimer.interval, in clock units.
Interval == 2

\* RepeatedTimer.__init__ up to its call of start(): _timer is None, the
\* _time_zero call of the function is made, next_call is time.time(), and
\* start() is about to run.
TimerInit ==
    /\ is_running = FALSE
    /\ timer = 0
    /\ timers = <<>>
    /\ main_pc = "ctor_start"
    /\ ticks = 1
    /\ late_ticks = 0
    /\ now = 0
    /\ origin = 0
    /\ next_call = 0
    /\ targets = <<>>
    /\ stop_calls = 0

\* Time passes.
Advance ==
    /\ now < MaxNow
    /\ now' = now + 1
    /\ UNCHANGED <<is_running, timer, timers, main_pc, ticks, late_ticks,
                   origin, schedule, stop_calls>>

\* A start() that aims the next Timer one interval after the present.
StartScheduleFromNow(scheduled, threads) ==
    IF scheduled
    THEN /\ next_call' = now + Interval
         /\ targets' = Append(targets, now + Interval)
         /\ timers' = Append(threads, "waiting")
         /\ timer' = Len(threads) + 1
    ELSE timers' = threads /\ UNCHANGED <<schedule, timer>>

\* start(), its first half: `if not self.is_running:` then
\* `self.next_call += self.interval`,
\* `self._timer = threading.Timer(self.next_call - time.time(), self._run)`
\* and `self._timer.start()`.  scheduled is FALSE where the test fails and
\* start() does nothing; threads holds the Timers so far, the calling thread
\* at its next position.
StartSchedule(scheduled, threads) ==
    IF scheduled
    THEN /\ next_call' = next_call + Interval
         /\ targets' = Append(targets, next_call + Interval)
         /\ timers' = Append(threads, "waiting")
         /\ timer' = Len(threads) + 1
    ELSE timers' = threads /\ UNCHANGED <<schedule, timer>>

\* start() called by __init__ on the constructing thread.
CtorStart ==
    /\ main_pc = "ctor_start"
    /\ StartSchedule(~is_running, timers)
    /\ main_pc' = IF ~is_running THEN "ctor_mark" ELSE "sleeping"
    /\ UNCHANGED <<is_running, ticks, late_ticks, clock, stop_calls>>

\* start(), its last statement `self.is_running = True`, in __init__.
CtorMark ==
    /\ main_pc = "ctor_mark"
    /\ is_running' = TRUE
    /\ main_pc' = "sleeping"
    /\ UNCHANGED <<timer, timers, ticks, late_ticks, clock, schedule,
                   stop_calls>>

\* threading.Timer k has waited its time (to its target, or no time at all
\* where the target was already past) uncancelled: its thread enters _run.
TimerFires(k) ==
    /\ timers[k] = "waiting"
    /\ now >= targets[k]
    /\ Len(timers) < MaxTimers
    /\ timers' = [timers EXCEPT ![k] = "run_clear"]
    /\ UNCHANGED <<is_running, timer, main_pc, ticks, late_ticks, clock,
                   schedule, stop_calls>>

\* _run: `self.is_running = False`.
RunClear(k) ==
    /\ timers[k] = "run_clear"
    /\ is_running' = FALSE
    /\ timers' = [timers EXCEPT ![k] = "run_start"]
    /\ UNCHANGED <<timer, main_pc, ticks, late_ticks, clock, schedule,
                   stop_calls>>

\* _run: `self.start()`, up to the creation of the next Timer.
RunStart(k) ==
    /\ timers[k] = "run_start"
    /\ StartSchedule(~is_running,
                     [timers EXCEPT ![k] = IF ~is_running THEN "run_mark"
                                           ELSE "run_function"])
    /\ UNCHANGED <<is_running, main_pc, ticks, late_ticks, clock, stop_calls>>

\* _run: the end of start(), `self.is_running = True`.
RunMark(k) ==
    /\ timers[k] = "run_mark"
    /\ is_running' = TRUE
    /\ timers' = [timers EXCEPT ![k] = "run_function"]
    /\ UNCHANGED <<timer, main_pc, ticks, late_ticks, clock, schedule,
                   stop_calls>>

\* _run: `self.function(*self.args, **self.kwargs)`, one tick.
RunFunction(k) ==
    /\ timers[k] = "run_function"
    /\ ticks' = ticks + 1
    /\ late_ticks' = IF stop_calls > 0 THEN late_ticks + 1 ELSE late_ticks
    /\ timers' = [timers EXCEPT ![k] = "finished"]
    /\ UNCHANGED <<is_running, timer, main_pc, clock, schedule, stop_calls>>

\* A cancel() that stops nothing.
NotCancelled(state) == state

\* threading.Timer.cancel(): it stops a Timer that still waits and does
\* nothing to one whose function has begun or ended.
Cancelled(state) == IF state = "waiting" THEN "cancelled" ELSE state

\* stop(): `self._timer.cancel()`, an AttributeError where _timer is None.
StopCancel ==
    /\ main_pc \in {"sleeping", "stopped"}
    /\ stop_calls < MaxStopCalls
    /\ IF timer = 0
       THEN /\ main_pc' = "stop_raised"
            /\ UNCHANGED timers
       ELSE /\ timers' = [timers EXCEPT ![timer] = Cancelled(timers[timer])]
            /\ main_pc' = "stop_mark"
    /\ UNCHANGED <<is_running, timer, ticks, late_ticks, clock, schedule,
                   stop_calls>>

\* stop(): `self.is_running = False`, and stop() returns.
StopMark ==
    /\ main_pc = "stop_mark"
    /\ is_running' = FALSE
    /\ main_pc' = "stopped"
    /\ stop_calls' = stop_calls + 1
    /\ UNCHANGED <<timer, timers, ticks, late_ticks, clock, schedule>>

\* start() called on the main thread (Metronome.start), up to the creation
\* of the next Timer; it does nothing where is_running is set.
StartCall ==
    /\ main_pc \in {"sleeping", "stopped"}
    /\ Len(timers) < MaxTimers
    /\ StartSchedule(~is_running, timers)
    /\ main_pc' = IF ~is_running THEN "start_mark" ELSE main_pc
    /\ UNCHANGED <<is_running, ticks, late_ticks, clock, stop_calls>>

\* That start(), its last statement `self.is_running = True`.
StartMark ==
    /\ main_pc = "start_mark"
    /\ is_running' = TRUE
    /\ main_pc' = "sleeping"
    /\ UNCHANGED <<timer, timers, ticks, late_ticks, clock, schedule,
                   stop_calls>>

\* --------------------------------------------------------- specifications

vars == <<engineVars, mspVars, stripVars, timerVars, derivedVars>>

\* What the operations of one component leave alone.
besidesEngine == <<mspVars, stripVars, timerVars, derivedVars>>
besidesMSP == <<engineVars, stripVars, timerVars, derivedVars>>
besidesStrip == <<engineVars, mspVars, timerVars, derivedVars>>
besidesTimer == <<engineVars, mspVars, stripVars, derivedVars>>
besidesDerived == <<engineVars, stripVars, timerVars>>

\* The engine, with one MultiStepPrint lying untouched.
Init ==
    EngineInit /\ MSPInit(1000) /\ StripInit /\ TimerInit /\ DerivedInit

Next ==
    \/ \E t \in Timeouts :
           /\ Focus(t)
           /\ UNCHANGED besidesEngine
    \/ FocusOn /\ UNCHANGED besidesEngine
    \/ FocusOnFaults /\ UNCHANGED besidesEngine
    \/ FocusAck /\ UNCHANGED besidesEngine
    \/ FocusInputFaults /\ UNCHANGED besidesEngine
    \/ FocusAlarm /\ UNCHANGED besidesEngine
    \/ FocusExit /\ UNCHANGED besidesEngine
    \/ FocusFinally /\ UNCHANGED besidesEngine
    \/ \E d \in Durations, g \in Grades :
           /\ PrintCall(d, g)
           /\ UNCHANGED besidesEngine
    \/ SetFilter /\ UNCHANGED besidesEngine
    \/ FilterConfirm /\ UNCHANGED besidesEngine
    \/ FilterWaitFaults /\ UNCHANGED besidesEngine
    \/ PreMetro /\ UNCHANGED besidesEngine
    \/ PreOn /\ UNCHANGED besidesEngine
    \/ PreSleep /\ UNCHANGED besidesEngine
    \/ PreStop /\ UNCHANGED besidesEngine
    \/ PreSound /\ UNCHANGED besidesEngine
    \/ MainMetro /\ UNCHANGED besidesEngine
    \/ MainOn /\ UNCHANGED besidesEngine
    \/ MainSleep /\ UNCHANGED besidesEngine
    \/ TryFaults /\ UNCHANGED besidesEngine
    \/ TryOnFaults /\ UNCHANGED besidesEngine
    \/ FinallyOff /\ UNCHANGED besidesEngine
    \/ FinallyStop /\ UNCHANGED besidesEngine
    \/ \E p \in Programs :
           /\ Make(p)
           /\ UNCHANGED besidesEngine
    \/ MakeOff /\ UNCHANGED besidesEngine
    \/ StepBegin /\ UNCHANGED besidesEngine
    \/ StepConfirm /\ UNCHANGED besidesEngine
    \/ StepWaitFaults /\ UNCHANGED besidesEngine
    \/ PrintReturn /\ UNCHANGED besidesEngine
    \/ Prompt /\ UNCHANGED besidesEngine

Spec == Init /\ [][Next]_vars

\* The MultiStepPrint builder, with the engine idle.
InitMSP ==
    /\ EngineInit /\ StripInit /\ TimerInit /\ DerivedInit
    /\ \E b \in Bases : MSPInit(b)

NextMSP ==
    \/ \E s \in DodgeStops :
           /\ Dodge(s, -100, "sky")
           /\ UNCHANGED besidesMSP
    \/ \E s \in BurnStops, g \in BurnGrades :
           Burn(s, g, 0, "") /\ UNCHANGED besidesMSP
    \/ \E n \in StepNumbers :
           /\ RemoveStep(n)
           /\ UNCHANGED besidesMSP
    \/ \E b \in Bases :
           /\ SetBaseDuration(b)
           /\ UNCHANGED besidesMSP
    \/ \E g \in BaseGrades :
           /\ SetGrade(g)
           /\ UNCHANGED besidesMSP
    \/ \E p \in BasePrompts :
           /\ SetBaseUserPrompt(p)
           /\ UNCHANGED besidesMSP

SpecMSP == InitMSP /\ [][NextMSP]_vars

\* The test strip constructors, with the engine and the builder idle.
InitStrip ==
    EngineInit /\ MSPInit(1000) /\ StripInit /\ TimerInit /\ DerivedInit

NextStrip ==
    \/ \E b \in StripBases, n \in StripSteps, s \in StripHalfStops,
          m \in BOOLEAN, g \in BaseGrades :
           /\ NewFStopTestStrip(b, n, s, m, g)
           /\ UNCHANGED besidesStrip
    \/ \E b \in StripBases, n \in StripSteps, s \in StripHalfStops,
          m \in BOOLEAN, g \in BaseGrades :
           /\ NewLocalizedFStopTestStrip(b, n, s, m, g)
           /\ UNCHANGED besidesStrip
    \/ \E b \in BarnbaumBases, m \in BOOLEAN, g \in BaseGrades :
           /\ NewBarnbaumTestPrint(b, m, g)
           /\ UNCHANGED besidesStrip

SpecStrip == InitStrip /\ [][NextStrip]_vars

\* One RepeatedTimer: the thread that constructs and stops it, and the
\* threads of its Timers, interleaved statement by statement.
InitTimer ==
    EngineInit /\ MSPInit(1000) /\ StripInit /\ TimerInit /\ DerivedInit

NextTimer ==
    \/ Advance /\ UNCHANGED besidesTimer
    \/ CtorStart /\ UNCHANGED besidesTimer
    \/ CtorMark /\ UNCHANGED besidesTimer
    \/ \E k \in 1..Len(timers) :
           TimerFires(k) /\ UNCHANGED besidesTimer
    \/ \E k \in 1..Len(timers) :
           RunClear(k) /\ UNCHANGED besidesTimer
    \/ \E k \in 1..Len(timers) :
           RunStart(k) /\ UNCHANGED besidesTimer
    \/ \E k \in 1..Len(timers) :
           RunMark(k) /\ UNCHANGED besidesTimer
    \/ \E k \in 1..Len(timers) :
           RunFunction(k) /\ UNCHANGED besidesTimer
    \/ StopCancel /\ UNCHANGED besidesTimer
    \/ StopMark /\ UNCHANGED besidesTimer

SpecTimer == InitTimer /\ [][NextTimer]_vars

\* A RepeatedTimer that the main thread also starts again.
NextRestart ==
    \/ NextTimer
    \/ StartCall /\ UNCHANGED besidesTimer
    \/ StartMark /\ UNCHANGED besidesTimer

SpecRestart == InitTimer /\ [][NextRestart]_vars

\* The engine with an operator who never acknowledges a focus, and no fault
\* while a focus runs.
NextFocus ==
    \/ \E t \in Timeouts :
           /\ Focus(t)
           /\ UNCHANGED besidesEngine
    \/ FocusOn /\ UNCHANGED besidesEngine
    \/ FocusAlarm /\ UNCHANGED besidesEngine
    \/ FocusExit /\ UNCHANGED besidesEngine
    \/ FocusFinally /\ UNCHANGED besidesEngine
    \/ \E d \in Durations, g \in Grades :
           /\ PrintCall(d, g)
           /\ UNCHANGED besidesEngine
    \/ SetFilter /\ UNCHANGED besidesEngine
    \/ FilterConfirm /\ UNCHANGED besidesEngine
    \/ FilterWaitFaults /\ UNCHANGED besidesEngine
    \/ PreMetro /\ UNCHANGED besidesEngine
    \/ PreOn /\ UNCHANGED besidesEngine
    \/ PreSleep /\ UNCHANGED besidesEngine
    \/ PreStop /\ UNCHANGED besidesEngine
    \/ PreSound /\ UNCHANGED besidesEngine
    \/ MainMetro /\ UNCHANGED besidesEngine
    \/ MainOn /\ UNCHANGED besidesEngine
    \/ MainSleep /\ UNCHANGED besidesEngine
    \/ TryFaults /\ UNCHANGED besidesEngine
    \/ TryOnFaults /\ UNCHANGED besidesEngine
    \/ FinallyOff /\ UNCHANGED besidesEngine
    \/ FinallyStop /\ UNCHANGED besidesEngine
    \/ \E p \in Programs :
           /\ Make(p)
           /\ UNCHANGED besidesEngine
    \/ MakeOff /\ UNCHANGED besidesEngine
    \/ StepBegin /\ UNCHANGED besidesEngine
    \/ StepConfirm /\ UNCHANGED besidesEngine
    \/ StepWaitFaults /\ UNCHANGED besidesEngine
    \/ PrintReturn /\ UNCHANGED besidesEngine
    \/ Prompt /\ UNCHANGED besidesEngine

\* A running focus goes on, and the kernel delivers an armed alarm.
FocusRuns ==
    /\ FocusOn \/ FocusAlarm \/ FocusExit \/ FocusFinally
    /\ UNCHANGED besidesEngine

SpecFocus == Init /\ [][NextFocus]_vars /\ WF_vars(FocusRuns)

\* A MultiStepPrint that is changed and concatenated with a OneExposurePrint.
\* A change rebinds the print's _print_list to a new list (_set_print_list),
\* so it leaves the list of an earlier sum alone.
InitAdd ==
    EngineInit /\ MSPInit(1000) /\ StripInit /\ TimerInit /\ DerivedInit

NextAdd ==
    \/ Dodge(1, -100, "sky") /\ UNCHANGED <<besidesDerived, derivedVars>>
    \/ Burn(1, None, 0, "") /\ UNCHANGED <<besidesDerived, derivedVars>>
    \/ \E n \in 1..3 :
           RemoveStep(n) /\ UNCHANGED <<besidesDerived, derivedVars>>
    \/ \E b \in Bases :
           SetBaseDuration(b) /\ UNCHANGED <<besidesDerived, derivedVars>>
    \/ \E msp_first \in BOOLEAN :
           Add(msp_first) /\ UNCHANGED besidesDerived

SpecAdd == InitAdd /\ [][NextAdd]_vars

\* from_step, with a test strip or test print as the source print.
FromStepNumbers == -1..(MaxStripSteps + 1)

InitFromStep ==
    /\ EngineInit /\ MSPInit(1000) /\ TimerInit /\ DerivedInit
    /\ strip_result = "ok"
    /\ \/ \E b \in StripBases, n \in 0..MaxStripSteps, s \in {-2, 1, 2},
             m \in BOOLEAN :
              \/ /\ strip_call = StripCall("FStopTestStrip", b, n, s, m, "5")
                 /\ strip_print_list = FStopTestStrip(b, n, s, m, "5")
              \/ /\ strip_call =
                        StripCall("LocalizedFStopTestStrip", b, n, s, m, "5")
                 /\ strip_print_list =
                        LocalizedFStopTestStrip(b, n, s, m, "5")
       \/ /\ strip_call = StripCall("BarnbaumTestPrint", 750, 3, 0, FALSE, "5")
          /\ strip_print_list = BarnbaumTestPrint(750, FALSE, "5")

NextFromStep ==
    \/ \E n \in FromStepNumbers :
           OneExposureFromStep(n) /\ UNCHANGED besidesDerived
    \/ \E n \in FromStepNumbers :
           MultiStepFromStep(n) /\ UNCHANGED besidesDerived
    \/ \E n \in FromStepNumbers :
           FStopFromStep(n, 3, 1, FALSE, None) /\ UNCHANGED besidesDerived
    \/ \E n \in FromStepNumbers :
           /\ LocalizedFromStep(n, 3, 1, TRUE, "2.5")
           /\ UNCHANGED besidesDerived
    \/ \E n \in FromStepNumbers, m \in BOOLEAN :
           BarnbaumFromStep(n, m, None) /\ UNCHANGED besidesDerived

SpecFromStep == InitFromStep /\ [][NextFromStep]_vars

\* ----------------------------------------------------------------- claims

\* C1: when focus returns or raises, the light is off and off() was the last
\* actuator call, whether the operator acknowledged, the timeout expired or
\* something else was raised while the light was on.
C1_FocusLeavesLightOff ==
    (call = "focus" /\ pc = "done") => (light = "off" /\ lastCall = "off")

\* A focus that ended by re-raising a fault.
C1_Witness ==
    call = "focus" /\ pc = "done" /\ outcome = "raised_Fault"

\* C2: whenever an error raised in _print's try block (preview or main
\* exposure) reaches the caller, the light is off, also for a step of make
\* that keeps the light on for a continuation step.
C2_LightOffWhenErrorLeavesPrint ==
    (pc = "print_return" /\ exc # "none") => light = "off"

\* C3: whenever an error raised after a Metronome was started reaches the
\* caller, no Metronome of the step still ticks and the error is the
\* original one.
C3_MetronomesStoppedAndErrorKept ==
    (/\ pc = "print_return"
     /\ exc # "none"
     /\ (before_metro # "unbound" \/ metronome # "unbound"))
    => (/\ before_metro # "ticking"
        /\ metronome # "ticking"
        /\ exc = "Fault")

\* The pcs of a step of make up to the end of its exposure's sleep, and
\* those before its first self._on().
UntilExposedPcs ==
    {"step_begin", "step_wait", "set_filter", "filter_wait", "pre_metro",
     "pre_on", "pre_sleep", "pre_stop", "pre_sound", "main_metro", "main_on",
     "main_sleep"}

BeforeFirstOnPcs(before_step_duration) ==
    IF before_step_duration > 0
    THEN {"step_begin", "step_wait", "set_filter", "filter_wait",
          "pre_metro", "pre_on"}
    ELSE {"step_begin", "step_wait", "set_filter", "filter_wait",
          "pre_sound", "main_metro", "main_on"}

\* C4: in make, between the end of a step's exposure and the start of the
\* next step's, the light is left on (no off() call) exactly when the next
\* step has before_step_duration < 0; after the last step's exposure the
\* light is turned off.
C4_LightKeptOnOnlyForContinuation ==
    /\ (call = "make" /\ idx > 1 /\ pc \in UntilExposedPcs)
       => offSinceExposure = (steps[idx].before_step_duration >= 0)
    /\ (call = "make" /\ idx > 1
        /\ pc \in BeforeFirstOnPcs(steps[idx].before_step_duration))
       => (light = "on") = (steps[idx].before_step_duration < 0)
    /\ (call = "make" /\ pc = "print_return" /\ exc = "none")
       => offSinceExposure =
              (idx = Len(steps) \/ steps[idx + 1].before_step_duration >= 0)

\* A continuation step about to switch on a light that never went off.
C4_Witness ==
    /\ call = "make"
    /\ idx = 2
    /\ pc = "main_on"
    /\ steps[2].before_step_duration < 0
    /\ ~offSinceExposure
    /\ light = "on"

\* C5: when make returns, for any program, the light is off; and until the
\* first step switches it on the light is off, whatever it was before make.
C5_MakeLeavesLightOff ==
    /\ (call = "make" /\ pc = "done" /\ outcome = "returned")
       => (light = "off" /\ lastCall = "off")
    /\ (call = "make" /\ idx = 1
        /\ pc \in {"step_begin", "step_wait", "set_filter", "filter_wait"})
       => light = "off"

\* make returned from a program ending in two continuation steps.
C5_Witness ==
    /\ call = "make"
    /\ pc = "done"
    /\ outcome = "returned"
    /\ Len(steps) = 3
    /\ steps[2].before_step_duration < 0
    /\ steps[3].before_step_duration < 0

\* The steps among the first k of the program that ask for a confirmation.
ConfirmedAmong(k) ==
    Cardinality({j \in 1..k : steps[j].before_step_duration >= 0})

InPrintPcs ==
    {"set_filter", "filter_wait", "pre_metro", "pre_on", "pre_sleep",
     "pre_stop", "pre_sound", "main_metro", "main_on", "main_sleep",
     "finally_off", "finally_stop", "print_return"}

IsMain(e) == e.ph = "main"

\* What the running _print did from the main exposure's Metronome on.
MainEvents == SelectSeq(events, IsMain)

SleepEntered == \E i \in 1..Len(events) : events[i] = Ev("main", "sleep")

OffIfAsked ==
    IF args.turn_off_enlarger_at_end_of_print
    THEN <<Ev("main", "off")>>
    ELSE <<>>

AfterSetFilterPcs == InPrintPcs \ {"set_filter", "filter_wait"}

\* C8: _set_filter waits for a confirmation exactly when the grade differs
\* from the current one, and leaves the current grade equal to the step's;
\* the current grade starts as None and persists across steps and calls, so
\* the filter confirmations number the executed steps whose grade differs
\* from that of the step executed before.
C8_FilterConfirmedOnChangeOnly ==
    /\ filter = prevGrade
    /\ filterConfirms = gradeChanges
    /\ pc = "filter_wait" => args.filter # filter
    /\ pc \in AfterSetFilterPcs => filter = args.filter

\* A run of three steps graded 2.5, None, 2.5 that waited for two filter
\* changes only: the filter was at 2.5 from an earlier call.
C8_Witness ==
    /\ call = "make"
    /\ pc = "done"
    /\ outcome = "returned"
    /\ Len(steps) = 3
    /\ steps[1].grade = "2.5"
    /\ steps[2].grade = None
    /\ steps[3].grade = "2.5"
    /\ filterConfirms = 2

RECURSIVE SumDurations(_)
SumDurations(seq) ==
    IF seq = <<>> THEN 0 ELSE Head(seq).duration + SumDurations(Tail(seq))

\* The realized dodge steps: those after the base step, one per dodge.
RealizedDodgeSteps ==
    SubSeq(print_list, 2, 1 + Len(dodge_steps_in_stops))

\* C9: after any sequence of mutations the durations of the realized dodge
\* steps sum to at most base_duration.
C9_DodgeTotalWithinBase ==
    SumDurations(RealizedDodgeSteps) <= base_duration

\* The step taken is a call of dodge.
DodgeStep == msp_op'.op = "dodge" /\ mspVars' # mspVars

ProposedTotal ==
    DodgeDuration(base_duration, msp_op'.n) + total_dodge_duration

\* C10 as stated: a dodge whose duration plus the current dodge total is
\* equal to or greater than base_duration is rejected.
C10_RejectedAtBase ==
    [][(DodgeStep /\ ProposedTotal >= base_duration)
       => msp_result' = "raised"]_vars

\* C10 amended: a dodge is rejected exactly when its duration plus the
\* current dodge total is greater than base_duration, and a rejection leaves
\* the program and the modifier lists as they were; with base 10 s one
\* dodge(1) gives 2 steps with a base step of 5 s, and a second dodge(1),
\* reaching the base exactly, gives 3 steps with a base step of 0 s.
C10_RejectedAboveBase ==
    /\ [][DodgeStep =>
            /\ (msp_result' = "raised") <=> (ProposedTotal > base_duration)
            /\ msp_result' = "raised" =>
                   UNCHANGED <<print_list, dodge_steps_in_stops,
                               burn_steps_in_stops>>]_vars
    /\ [](/\ base_duration = 1000
          /\ burn_steps_in_stops = <<>>
          /\ Len(dodge_steps_in_stops) \in {1, 2}
          /\ \A i \in 1..Len(dodge_steps_in_stops) :
                 dodge_steps_in_stops[i].duration = 1
          => /\ Len(print_list) = 1 + Len(dodge_steps_in_stops)
             /\ print_list[1].duration =
                    IF Len(dodge_steps_in_stops) = 1 THEN 500 ELSE 0)

\* Two dodges of one stop were accepted on a base of 10 s, and a third dodge
\* was then rejected.
C10_Witness ==
    /\ msp_op.op = "dodge"
    /\ msp_result = "raised"
    /\ base_duration = 1000
    /\ total_dodge_duration = base_duration
    /\ Len(print_list) = 3

\* The modifiers of the builder in step order: the dodges, then the burns.
Modifiers == dodge_steps_in_stops \o burn_steps_in_stops

\* C11: after construction and after every mutation the realized step list
\* is the base step, then one step per dodge modifier in insertion order,
\* then one step per burn modifier in insertion order, so that its length is
\* 1 + the number of dodges + the number of burns.
C11_ProgramIsBaseDodgesBurns ==
    /\ Len(print_list) = 1 + Len(Modifiers)
    /\ print_list[1].user_prompt = base_user_prompt
    /\ print_list[1].before_step_duration = base_before_step_duration
    /\ \A i \in 1..Len(Modifiers) :
           /\ print_list[1 + i].user_prompt = Modifiers[i].user_prompt
           /\ print_list[1 + i].before_step_duration =
                  Modifiers[i].before_step_duration

\* The base duration was set on a builder holding two different dodges and a
\* burn.
C11_Witness ==
    /\ msp_op.op = "base_duration"
    /\ Len(dodge_steps_in_stops) = 2
    /\ dodge_steps_in_stops[1].duration # dodge_steps_in_stops[2].duration
    /\ Len(burn_steps_in_stops) = 1
    /\ Len(print_list) = 4

\* The program as the current base and modifier lists alone determine it.
ProgramOfCurrentFields ==
    LET b == base_duration
        nd == Len(dodge_steps_in_stops)
    IN  /\ print_list[1] =
               PrintStep(b - SumDurations(RealizedDodgeSteps),
                         base_user_prompt, base_grade,
                         base_before_step_duration)
        /\ \A i \in 1..nd :
               /\ print_list[1 + i].duration =
                      b - TimesPow2(b, -dodge_steps_in_stops[i].duration)
               /\ print_list[1 + i].grade = base_grade
        /\ \A i \in 1..Len(burn_steps_in_stops) :
               /\ print_list[1 + nd + i].duration =
                      TimesPow2(b, burn_steps_in_stops[i].duration) - b
               /\ print_list[1 + nd + i].grade =
                      IF burn_steps_in_stops[i].grade = None
                      THEN base_grade ELSE burn_steps_in_stops[i].grade

\* A setter is called with the value the field already holds.
SetterRepeats ==
    /\ msp_op'.op \in {"base_duration", "grade", "base_user_prompt"}
    /\ mspVars' # mspVars
    /\ base_duration' = base_duration
    /\ base_grade' = base_grade
    /\ base_user_prompt' = base_user_prompt

\* C12: the realized program is a function of the current base duration,
\* grade, prompt, dodge list and burn list only: every dodge step lasts
\* b - b/2^s, every burn step b*2^s - b and the base step b minus the dodge
\* total, for the current base b, whatever the history; and rebuilding with
\* no change of a field yields the same program.
C12_ProgramFromCurrentFields ==
    /\ [](Len(print_list) = 1 + Len(Modifiers) => ProgramOfCurrentFields)
    /\ [][SetterRepeats => print_list' = print_list]_vars

\* The base duration was changed to 4 s on a builder holding a dodge of one
\* stop and a burn of one stop: base step 2 s, dodge 2 s, burn 4 s.
C12_Witness ==
    /\ msp_op = Op("base_duration", 400, "")
    /\ Len(dodge_steps_in_stops) = 1
    /\ dodge_steps_in_stops[1].duration = 1
    /\ Len(burn_steps_in_stops) = 1
    /\ burn_steps_in_stops[1].duration = 1
    /\ print_list[1].duration = 200
    /\ print_list[2].duration = 200
    /\ print_list[3].duration = 400

\* The step taken is a call of remove_step; msp_op'.n is its step number.
RemoveStepCall == msp_op'.op = "remove_step" /\ mspVars' # mspVars

\* The step number names a dodge or burn step of the program before the call.
ValidStepNumber == msp_op'.n \in 2..Len(print_list)

\* The call ended in an exception.
Raised(result) == result \in {"raised", "raised_IndexError"}

\* C13: remove_step(step_number) fails with an error whenever step_number is
\* 1 or lies outside the existing step numbers.
C13_InvalidRemoveRaises ==
    [][(RemoveStepCall /\ ~ValidStepNumber) => Raised(msp_result')]_vars

\* C14: remove_step(step_number) with a step_number outside 2..len(program)
\* (1, 0, a negative number, a number above the length) leaves the dodge
\* list, the burn list and the realized program unchanged.
C14_InvalidRemoveChangesNothing ==
    [][(RemoveStepCall /\ ~ValidStepNumber)
       => UNCHANGED <<dodge_steps_in_stops, burn_steps_in_stops,
                      print_list>>]_vars

\* C15: remove_step(k) with 2 <= k <= len(program) removes exactly the
\* modifier shown as step k (position k-2 of the dodges followed by the
\* burns), shortens the program by exactly one step and keeps every other
\* modifier, in the same order and in the same list.
C15_RemovesExactlyStepK ==
    [][(RemoveStepCall /\ ValidStepNumber) =>
          LET k == msp_op'.n
              nd == Len(dodge_steps_in_stops)
          IN  /\ msp_result' = "ok"
              /\ Len(print_list') = Len(print_list) - 1
              /\ Len(Modifiers') = Len(Modifiers) - 1
              /\ \A i \in 1..Len(Modifiers') :
                     Modifiers'[i] =
                         IF i < k - 1 THEN Modifiers[i] ELSE Modifiers[i + 1]
              /\ Len(dodge_steps_in_stops') =
                     IF k - 1 <= nd THEN nd - 1 ELSE nd]_vars

\* Step 2 was removed from a program of four steps: two modifiers are left.
C15_Witness ==
    /\ msp_op = Op("remove_step", 2, "")
    /\ msp_result = "ok"
    /\ Len(Modifiers) = 2
    /\ Len(print_list) = 3

\* C16 as stated: removing a valid dodge or burn step number leaves the base
\* step (duration, grade, prompt, before_step_duration) untouched.
C16_BaseStepUntouched ==
    [][(RemoveStepCall /\ ValidStepNumber)
       => print_list'[1] = print_list[1]]_vars

\* C16 amended: removing a valid step number leaves base_duration and the
\* base step's grade, prompt and before_step_duration untouched; removing a
\* burn step leaves the whole base step untouched, and removing a dodge step
\* sets the base step's duration to base_duration minus the total of the
\* dodge steps that remain.
C16_BaseStepFollowsDodges ==
    [][(RemoveStepCall /\ ValidStepNumber) =>
          /\ base_duration' = base_duration
          /\ print_list'[1].grade = print_list[1].grade
          /\ print_list'[1].user_prompt = print_list[1].user_prompt
          /\ print_list'[1].before_step_duration =
                 print_list[1].before_step_duration
          /\ print_list'[1].duration =
                 base_duration - SumDurations(RealizedDodgeSteps')
          /\ msp_op'.n - 1 > Len(dodge_steps_in_stops)
                 => print_list'[1] = print_list[1]]_vars

\* The first of several dodge steps was removed: a dodge remains and the
\* base step is shorter than the base duration.
C16_Witness ==
    /\ msp_op = Op("remove_step", 2, "")
    /\ msp_result = "ok"
    /\ Len(dodge_steps_in_stops) >= 1
    /\ print_list[1].duration = base_duration - print_list[2].duration
    /\ print_list[1].duration < base_duration

\* The strip constructed was asked for at least one step and a stop
\* increment other than zero.
ValidStripArguments == strip_call.steps >= 1 /\ strip_call.stops # 0

\* C17: for every valid (base, steps, stops) the durations of an
\* FStopTestStrip are incremental: the first i+1 of them sum to
\* base * 2^(i*stops) for every i in [0, steps), and none is negative.
C17_IncrementalDurations ==
    (/\ strip_call.kind = "FStopTestStrip"
     /\ ~strip_call.middle_out
     /\ ValidStripArguments)
    => /\ Len(strip_print_list) = strip_call.steps
       /\ \A i \in 0..(strip_call.steps - 1) :
              SumDurations(SubSeq(strip_print_list, 1, i + 1)) =
                  TimesPow2Half(strip_call.base, i * strip_call.stops)
       /\ \A n \in 1..Len(strip_print_list) :
              strip_print_list[n].duration >= 0

\* C18: constructing an FStopTestStrip or a LocalizedFStopTestStrip with
\* steps < 1 or stops = 0 is rejected with an error, and no program is
\* produced.
C18_InvalidStripRejected ==
    (/\ strip_call.kind \in {"FStopTestStrip", "LocalizedFStopTestStrip"}
     /\ ~ValidStripArguments)
    => strip_result = "raised" /\ strip_print_list = <<>>

\* The main exposure's time.sleep has just elapsed without an error.
MainExposureOver ==
    /\ pc = "finally_off"
    /\ exc = "none"
    /\ events # <<>>
    /\ events[Len(events)] = Ev("main", "sleep")

\* C19: the time for which _print keeps the light on for a step's main
\* exposure is the step's unrounded duration, not the duration rounded to
\* one decimal place that is displayed (5.66 s, not 5.7 s).
C19_ExposesUnroundedDuration ==
    MainExposureOver => slept = args.seconds

\* C20: whatever the interleaving of stop() with the Timer threads' _run
\* (stop() called while _run is between clearing is_running and
\* rescheduling, or before it calls the function), no tick callback starts
\* after stop() has returned.
C20_NoTickAfterStop == main_pc = "stopped" => late_ticks = 0

\* C21: a RepeatedTimer calls its function once at construction, before any
\* Timer exists, and aims its k-th later tick at origin + k*interval, with
\* the origin fixed at construction: the aim of a tick depends neither on
\* when the tick before it fired nor on how long a callback took.
C21_TicksAimedFromOrigin ==
    /\ ticks >= 1
    /\ timers = <<>> => ticks = 1
    /\ Len(targets) = Len(timers)
    /\ \A k \in 1..Len(targets) : targets[k] = origin + k * Interval

\* The second Timer fired so late that the third was created after the time
\* it is aimed at.
C21_Witness ==
    /\ Len(targets) = 3
    /\ now > targets[3]
    /\ timers[2] \in {"run_mark", "run_function", "finished"}

\* No tick is in flight: no Timer thread is inside _run.
NoTickInFlight ==
    \A k \in 1..Len(timers) : timers[k] \in {"waiting", "cancelled", "finished"}

\* No Timer is pending uncancelled.
NoPendingTimer == \A k \in 1..Len(timers) : timers[k] # "waiting"

\* The timer is in the stopped state.
StoppedState == ~is_running /\ NoPendingTimer /\ NoTickInFlight

\* The steps of a call of stop(): its first statement and its second.
StopCancelStep ==
    /\ main_pc \in {"sleeping", "stopped"}
    /\ main_pc' \in {"stop_mark", "stop_raised"}

StopMarkStep == main_pc = "stop_mark" /\ main_pc' = "stopped"

\* C22: stop() is idempotent and safe in every state: it never raises; called
\* with no tick in flight it leaves the timer stopped (is_running false, no
\* pending uncancelled Timer); and called again on a stopped timer it leaves
\* that same state.
C22_StopIdempotent ==
    /\ [](main_pc # "stop_raised")
    /\ [][/\ ((StopCancelStep /\ NoTickInFlight)
               => (NoTickInFlight' /\ NoPendingTimer'))
           /\ ((StopMarkStep /\ NoTickInFlight /\ NoPendingTimer)
               => StoppedState')
           /\ (((StopCancelStep \/ StopMarkStep) /\ StoppedState)
               => UNCHANGED <<is_running, timer, timers>>)]_vars

\* stop() was called twice on a timer whose first Timer had not fired.
C22_Witness ==
    /\ stop_calls = 2
    /\ main_pc = "stopped"
    /\ timers = <<"cancelled">>
    /\ StoppedState

\* C23: for every timeout passed to focus, a focus the operator never
\* acknowledges eventually returns normally through the caught timeout, with
\* the light off.
C23_FocusReturnsUnacknowledged ==
    (pc = "focus_on")
        ~> (/\ pc = "done"
            /\ call = "focus"
            /\ outcome = "returned_after_timeout"
            /\ light = "off")

\* C24: the alarm armed by the Timeout guard is cancelled whenever the guarded
\* scope is left, normally or by an exception: outside the with block of a
\* focus (so after focus has returned, and during every print and make) no
\* alarm is pending.
C24_AlarmCancelledOutsideScope ==
    pc \notin {"focus_on", "focus_input", "focus_exit"} => alarm = "none"

\* A focus with a positive timeout left its with block through an exception
\* that was not the timeout, and has ended.
C24_Witness ==
    /\ call = "focus"
    /\ timeout_seconds > 0
    /\ pc = "done"
    /\ outcome = "raised_Fault"
    /\ alarm = "none"

C27_DurationsNonNegative ==
    \A n \in 1..Len(print_list) : print_list[n].duration >= 0

\* C26: every from_step given a step_number outside 1..len(source_print),
\* 0 and negative numbers included, fails (with an InvalidStepError) instead
\* of silently using some step of the source print.
C26_BadStepNumberRejected ==
    (/\ from_call.cls # "none"
     /\ from_call.step_number \notin 1..Len(strip_print_list))
        => from_result # "ok"

\* The cumulative exposure base * 2**(key*stops) of the strip the last
\* constructor call built, base being the one the strip was built from.
StripTotal(key) ==
    TimesPow2Half(StripBase(strip_call.base, strip_call.steps,
                            strip_call.stops, strip_call.middle_out),
                  key * strip_call.stops)

\* C29: for 0 <= key < steps, strip[key] of an FStopTestStrip is a PrintStep
\* with the strip's grade whose duration is the sum of the first key+1
\* incremental durations, which is base * 2**(key*stops); and
\* OneExposurePrint.from_step(strip, n) and MultiStepPrint.from_step(strip, n)
\* start from that cumulative exposure of strip n.
C29_IndexingGivesTotalExposure ==
    strip_call.kind = "FStopTestStrip"
        => /\ \A key \in 0..(Len(strip_print_list) - 1) :
                  /\ FStopGetItem(strip_print_list, key).raised = "none"
                  /\ FStopGetItem(strip_print_list, key).step.duration
                         = SumDurations(SubSeq(strip_print_list, 1, key + 1))
                  /\ FStopGetItem(strip_print_list, key).step.duration
                         = StripTotal(key)
                  /\ FStopGetItem(strip_print_list, key).step.grade
                         = strip_call.grade
           /\ (/\ from_call.cls \in {"OneExposurePrint", "MultiStepPrint"}
               /\ from_call.step_number \in 1..Len(strip_print_list))
                  => /\ from_result = "ok"
                     /\ Len(from_print_list) = 1
                     /\ from_print_list[1].duration
                            = StripTotal(from_call.step_number - 1)
                     /\ from_print_list[1].grade = strip_call.grade

\* A MultiStepPrint was made from the third strip of a test strip whose
\* third increment is shorter than its third total.
C29_Witness ==
    /\ strip_call.kind = "FStopTestStrip"
    /\ from_call = FromCall("MultiStepPrint", 3)
    /\ from_result = "ok"
    /\ from_print_list[1].duration > strip_print_list[3].duration
    /\ strip_print_list[3].duration > 0

\* The 1-based position of the middle step, 0-based index floor(k/2).
MiddleStep == strip_call.steps \div 2 + 1

\* C28: with middle_out set, a test strip of k >= 1 steps is built from the
\* base divided by 2**(floor(k/2)*stops), so that the cumulative exposure at
\* 0-based index floor(k/2) is the base the caller passed: the prefix sum up
\* to that index for an FStopTestStrip, that step's own duration for a
\* LocalizedFStopTestStrip.
C28_MiddleOutRecentres ==
    (/\ strip_call.kind \in {"FStopTestStrip", "LocalizedFStopTestStrip"}
     /\ strip_result = "ok"
     /\ strip_call.middle_out
     /\ strip_call.steps >= 1)
        => /\ Len(strip_print_list) = strip_call.steps
           /\ strip_print_list[1].duration
                  = TimesPow2Half(strip_call.base,
                                  -((strip_call.steps \div 2)
                                        * strip_call.stops))
           /\ strip_call.kind = "FStopTestStrip"
                  => SumDurations(SubSeq(strip_print_list, 1, MiddleStep))
                         = strip_call.base
           /\ strip_call.kind = "LocalizedFStopTestStrip"
                  => strip_print_list[MiddleStep].duration = strip_call.base

\* A middle_out FStopTestStrip of three steps a half stop apart: its first
\* step is shorter than the base passed.
C28_Witness ==
    /\ strip_call.kind = "FStopTestStrip"
    /\ strip_result = "ok"
    /\ strip_call.middle_out
    /\ strip_call.steps = 3
    /\ strip_call.stops = 1
    /\ strip_print_list[1].duration < strip_call.base
    /\ strip_print_list[1].duration + strip_print_list[2].duration
           = strip_call.base

\* The exposure the k-th section of a Barnbaum test print has received when
\* it is covered: that of the steps 1..k.
SectionExposure(k) == SumDurations(SubSeq(strip_print_list, 1, k))

\* C30: a BarnbaumTestPrint of (post-middle_out) base n gives its three
\* sections total exposures of n, 2n and 3n when its steps are executed in
\* order with a further portion of the paper covered before each later step.
C30_SectionsGetOneTwoThreeN ==
    (strip_call.kind = "BarnbaumTestPrint" /\ strip_result = "ok")
        => \A k \in 1..3 :
               SectionExposure(k)
                   = k * BarnbaumBase(strip_call.base, strip_call.middle_out)

\* The realized burn steps: those after the base step and the dodge steps.
RealizedBurnSteps ==
    SubSeq(print_list, 2 + Len(dodge_steps_in_stops), Len(print_list))

C32_WaitsWithLightOff ==
    (call = "make" /\ pc \in {"step_wait", "filter_wait"}) => light = "off"

\* C33: in an FStopTestStrip of any (base, steps, stops) exactly the first
\* step carries the prompt "Place paper for print." and every later step
\* carries "Move card to block just exposed test strip.".
C33_OnlyFirstStepPlacesPaper ==
    (strip_call.kind = "FStopTestStrip" /\ strip_result = "ok")
        => \A n \in 1..Len(strip_print_list) :
               strip_print_list[n].user_prompt
                   = IF n = 1 THEN "Place paper for print."
                     ELSE "Move card to block just exposed test strip."

\* The Timers started, not fired and not cancelled.
PendingTimers == {k \in 1..Len(timers) : timers[k] = "waiting"}

\* No thread is inside start(), stop() or the head of _run.
NoCallUnderWay ==
    /\ main_pc \in {"sleeping", "stopped"}
    /\ \A k \in 1..Len(timers) :
           timers[k] \notin {"run_clear", "run_start", "run_mark"}

\* C34: a RepeatedTimer never has more than one pending Timer at a time, and
\* (whenever no call of start, stop or _run is under way) is_running is true
\* exactly when a Timer is pending, for every interleaving of start() and
\* stop() on the main thread with _run on the Timer threads.
C34_OnePendingTimer ==
    /\ Cardinality(PendingTimers) <= 1
    /\ NoCallUnderWay => (is_running <=> PendingTimers # {})

\* C35: after _print returns normally no Metronome started by it is still
\* scheduled to tick (and so at most one Metronome ticks at a time, the
\* preview's being stopped before the main exposure's is started).  _print
\* constructs a Metronome, sleeps and calls its stop(), which is the main
\* thread of the RepeatedTimer: once stop() has returned, no Timer of that
\* Metronome is pending.
C35_NoMetronomeLeftScheduled == main_pc = "stopped" => PendingTimers = {}

====
